---- MODULE Spec2Model ----
\* A model of the two tries of package trie: the token-sequence trie
\* (sliceTrie) and the delimited-string trie (stringTrie). Nodes live in a
\* heap indexed by node id (a pointer); node 1 is the root.
EXTENDS Integers, Sequences, FiniteSets, TLC

VARIABLES flavor, heap, last, before, prev, thr

vars == <<flavor, heap, last, before, prev, thr>>

\* ---------------------------------------------------------------- bounds

\* Nodes ever allocated in one run (the root included).
MaxNodes == 3
\* Longest token-sequence key.
MaxPathLen == 2
\* Longest string key, in characters.
MaxStrLen == 2

\* The token type K of the token-sequence trie.
Tokens == {"x", "y"}
\* The characters of string keys; a string is a sequence of characters.
Chars == {"a", "/"}
\* The delimiters New is called with.
Delimiters == {<<"/">>}
\* New takes any string as the delimiter, the empty one included.
AnyDelimiter == Delimiters \cup {<<>>}
\* The value type V and its zero value.
Values == {"zero", "v1"}
Zero == "zero"
\* What an unsynchronized read or write of a value slot can leave when it
\* overlaps a write of the same slot: a value that is neither operand.
Torn == "torn"

SeqsUpTo(S, n) == UNION {[1..m -> S] : m \in 0..n}
SlicePaths == SeqsUpTo(Tokens, MaxPathLen)
Strings == SeqsUpTo(Chars, MaxStrLen)

\* Nodes the heap has room for when calls run concurrently: the root, the
\* nodes of the key the trie starts with and those of one key per goroutine.
\* Only a descent that does not end reaches it.
MaxHeap ==
    LET longest == IF MaxPathLen > MaxStrLen THEN MaxPathLen ELSE MaxStrLen
    IN  1 + 3 * longest

\* ------------------------------------------------------------ primitives

\* The node New and NewSlice return.
Root == 1

\* new(sync.RWMutex): no writer (0), no readers.
NewRWMutex == [writer |-> 0, readers |-> {}]

\* make(map[K]*node): the map with no key.
EmptyMap == [k \in {} |-> 0]

newSliceTrie == [lock |-> NewRWMutex, children |-> EmptyMap, value |-> Zero]

newStringTrie(delimiter) ==
    [lock |-> NewRWMutex, children |-> EmptyMap,
     delimiter |-> delimiter, value |-> Zero]

\* strings.Index(s, sep): the first position (from 1) where sep occurs in s,
\* 0 when it does not occur. The empty sep occurs at position 1.
Index(s, sep) ==
    LET at == {i \in 1..(Len(s) + 1) :
                  /\ i + Len(sep) - 1 <= Len(s)
                  /\ SubSeq(s, i, i + Len(sep) - 1) = sep}
    IN  IF at = {} THEN 0 ELSE CHOOSE i \in at : \A j \in at : i <= j

\* strings.Cut(s, sep): s around the first occurrence of sep.
Cut(s, sep) ==
    LET i == Index(s, sep)
    IN  IF i = 0
        THEN [before |-> s, after |-> <<>>, found |-> FALSE]
        ELSE [before |-> SubSeq(s, 1, i - 1),
              after  |-> SubSeq(s, i + Len(sep), Len(s)),
              found  |-> TRUE]

\* child, ok := t.children[key]
LookupChild(h, t, key) ==
    IF key \in DOMAIN h[t].children
    THEN [child |-> h[t].children[key], ok |-> TRUE]
    ELSE [child |-> 0, ok |-> FALSE]

\* child = new...Trie(); t.children[key] = child. The new node gets the next
\* unused id.
InsertChildShared(h, t, key, node) ==
    Append([h EXCEPT ![t].children = (key :> (Len(h) + 1)) @@ @,
                     ![Root].children = (key :> (Len(h) + 1)) @@ @], node)
InsertChild(h, t, key, node) ==
    Append([h EXCEPT ![t].children = (key :> (Len(h) + 1)) @@ @], node)

\* delete(t.children, key)
DeleteChildDropsAll(h, t, key) == [h EXCEPT ![t].children = EmptyMap]
DeleteChildKeeps(h, t, key) == h
DeleteChild(h, t, key) ==
    [h EXCEPT ![t].children = [k \in (DOMAIN @) \ {key} |-> @[k]]]

\* t.value = value
StoreValueDropped(h, t, value) == h
StoreValueInRoot(h, t, value) ==
    [h EXCEPT ![t].value = value, ![Root].value = value]
StoreValue(h, t, value) == [h EXCEPT ![t].value = value]

\* return t.value, true
LoadValueZero(h, t) == [value |-> Zero, found |-> TRUE]
LoadValue(h, t) == [value |-> h[t].value, found |-> TRUE]

\* return value, false (value is the unassigned named result)
NotFoundAsFound == [value |-> Zero, found |-> TRUE]
NotFound == [value |-> Zero, found |-> FALSE]

\* ------------------------------------------- token-sequence trie, one call

RECURSIVE slicePut(_, _, _, _)
slicePut(h, t, path, value) ==
    IF Len(path) = 0
    THEN StoreValue(h, t, value)
    ELSE LET l == LookupChild(h, t, path[1])
         IN  IF l.ok
             THEN slicePut(h, l.child, Tail(path), value)
             ELSE slicePut(InsertChild(h, t, path[1], newSliceTrie),
                           Len(h) + 1, Tail(path), value)

RECURSIVE sliceGet(_, _, _)
sliceGet(h, t, path) ==
    IF Len(path) = 0
    THEN LoadValue(h, t)
    ELSE LET l == LookupChild(h, t, path[1])
         IN  IF ~l.ok THEN NotFound ELSE sliceGet(h, l.child, Tail(path))

\* panic("trie: cannot delete self"): the call aborts, the heap is untouched.
PanicSilentlyClears(h, t) ==
    [heap |-> [h EXCEPT ![t].children = EmptyMap], panic |-> FALSE]
Panic(h, t) == [heap |-> h, panic |-> TRUE]

\* The result is the heap and whether the call panicked.
RECURSIVE sliceDelete(_, _, _)
sliceDelete(h, t, path) ==
    IF Len(path) = 0
    THEN Panic(h, t)
    ELSE IF Len(path) = 1
    THEN [heap |-> DeleteChild(h, t, path[1]), panic |-> FALSE]
    ELSE LET l == LookupChild(h, t, path[1])
         IN  IF ~l.ok
             THEN [heap |-> h, panic |-> FALSE]
             ELSE sliceDelete(h, l.child, Tail(path))

\* ---------------------------------------- delimited-string trie, one call

RECURSIVE stringPut(_, _, _, _)
stringPut(h, t, path, value) ==
    IF path = <<>>
    THEN StoreValue(h, t, value)
    ELSE LET c == Cut(path, h[t].delimiter)
             l == LookupChild(h, t, c.before)
         IN  IF l.ok
             THEN stringPut(h, l.child, c.after, value)
             ELSE stringPut(InsertChild(h, t, c.before,
                                        newStringTrie(h[t].delimiter)),
                            Len(h) + 1, c.after, value)

RECURSIVE stringGet(_, _, _)
stringGet(h, t, path) ==
    IF path = <<>>
    THEN LoadValue(h, t)
    ELSE LET c == Cut(path, h[t].delimiter)
             l == LookupChild(h, t, c.before)
         IN  IF ~l.ok THEN NotFound ELSE stringGet(h, l.child, c.after)

stringDeleteKeeps(h, t, path) == [heap |-> h, panic |-> FALSE]
RECURSIVE stringDelete(_, _, _)
stringDelete(h, t, path) ==
    LET c == Cut(path, h[t].delimiter)
    IN  IF c.after = <<>>
        THEN [heap |-> DeleteChild(h, t, c.before), panic |-> FALSE]
        ELSE LET l == LookupChild(h, t, c.before)
             IN  IF ~l.ok
                 THEN [heap |-> h, panic |-> FALSE]
                 ELSE stringDelete(h, l.child, c.after)

\* ------------------------------------------------------- sequential calls

\* The record of a call: its arguments, what Get returned and whether the
\* call panicked.
Call(op, key, value, ret, panic) ==
    [op |-> op, key |-> key, value |-> value, ret |-> ret, panic |-> panic]

\* Two keys are akin when they are equal or, in the string flavor, differ by
\* one trailing delimiter.
Akin(k1, k2) ==
    \/ k1 = k2
    \/ /\ flavor = "string"
       /\ \/ k1 = k2 \o heap[Root].delimiter
          \/ k2 = k1 \o heap[Root].delimiter

NoCall == [op |-> "None", key |-> <<>>, value |-> Zero]

\* The call made just before the one on `key`, remembered when its key is
\* akin to `key`.
Remember(key) ==
    IF last.op # "New" /\ Akin(last.key, key)
    THEN [op |-> last.op, key |-> last.key, value |-> last.value]
    ELSE NoCall

Record(c, h) ==
    /\ last' = c
    /\ before' = heap
    /\ prev' = Remember(c.key)
    /\ heap' = h
    /\ UNCHANGED <<flavor, thr>>

\* The goroutines calling into one trie concurrently.
Threads == {1, 2}

\* A goroutine that has made no call yet. Of a running call: pc is the
\* statement it is at, t the node it is in, head and rest the token and the
\* remaining path at t, child and ok the locals of the map lookup.
NoToken == IF flavor = "slice" THEN "" ELSE <<>>
Idle ==
    [op |-> "None", key |-> <<>>, value |-> Zero, pc |-> "idle", t |-> 0,
     head |-> NoToken, rest |-> <<>>, child |-> 0, ok |-> FALSE,
     ret |-> NotFound, panic |-> FALSE]

\* NewSlice() or New(delimiter)
Init ==
    /\ flavor \in {"slice", "string"}
    /\ \E d \in Delimiters :
           heap = IF flavor = "slice" THEN <<newSliceTrie>>
                                      ELSE <<newStringTrie(d)>>
    /\ last = Call("New", <<>>, Zero, NotFound, FALSE)
    /\ before = heap
    /\ prev = NoCall
    /\ thr = [th \in Threads |-> Idle]

SlicePut(path, value) ==
    /\ flavor = "slice"
    /\ LET h == slicePut(heap, Root, path, value)
       IN  /\ Len(h) <= MaxNodes
           /\ Record(Call("Put", path, value, NotFound, FALSE), h)

SliceGet(path) ==
    /\ flavor = "slice"
    /\ Record(Call("Get", path, Zero, sliceGet(heap, Root, path), FALSE), heap)

SliceDelete(path) ==
    /\ flavor = "slice"
    /\ LET r == sliceDelete(heap, Root, path)
       IN  Record(Call("Delete", path, Zero, NotFound, r.panic), r.heap)

StringPut(path, value) ==
    /\ flavor = "string"
    /\ LET h == stringPut(heap, Root, path, value)
       IN  /\ Len(h) <= MaxNodes
           /\ Record(Call("Put", path, value, NotFound, FALSE), h)

StringGet(path) ==
    /\ flavor = "string"
    /\ Record(Call("Get", path, Zero, stringGet(heap, Root, path), FALSE), heap)

StringDelete(path) ==
    /\ flavor = "string"
    /\ LET r == stringDelete(heap, Root, path)
       IN  Record(Call("Delete", path, Zero, NotFound, r.panic), r.heap)

Next ==
    \/ \E path \in SlicePaths, value \in Values : SlicePut(path, value)
    \/ \E path \in SlicePaths : SliceGet(path)
    \/ \E path \in SlicePaths : SliceDelete(path)
    \/ \E path \in Strings, value \in Values : StringPut(path, value)
    \/ \E path \in Strings : StringGet(path)
    \/ \E path \in Strings : StringDelete(path)

Spec == Init /\ [][Next]_vars

Keys == IF flavor = "slice" THEN SlicePaths ELSE Strings

\* ------------------------------------------------------- concurrent calls
\* Every goroutine makes one call; a step is one statement of the call's
\* code between two synchronization or shared-memory accesses.

\* Entering node t with the remaining path: the tests at the top of Put, Get
\* and Delete and the split of the path, which touch only locals and the
\* immutable delimiter. The result is the statement reached.
sliceEnter(op, path) ==
    IF op = "Delete"
    THEN IF Len(path) = 0
         THEN [pc |-> "panic", head |-> NoToken, rest |-> <<>>]
         ELSE IF Len(path) = 1
         THEN [pc |-> "lock", head |-> path[1], rest |-> <<>>]
         ELSE [pc |-> "rlock", head |-> path[1], rest |-> Tail(path)]
    ELSE IF Len(path) = 0
         THEN [pc |-> IF op = "Put" THEN "store" ELSE "load",
               head |-> NoToken, rest |-> <<>>]
         ELSE [pc |-> IF op = "Put" THEN "lock" ELSE "rlock",
               head |-> path[1], rest |-> Tail(path)]

stringEnter(op, path, delimiter) ==
    IF op = "Delete"
    THEN LET c == Cut(path, delimiter)
         IN  IF c.after = <<>>
             THEN [pc |-> "lock", head |-> c.before, rest |-> <<>>]
             ELSE [pc |-> "rlock", head |-> c.before, rest |-> c.after]
    ELSE IF path = <<>>
         THEN [pc |-> IF op = "Put" THEN "store" ELSE "load",
               head |-> NoToken, rest |-> <<>>]
         ELSE LET c == Cut(path, delimiter)
              IN  [pc |-> IF op = "Put" THEN "lock" ELSE "rlock",
                   head |-> c.before, rest |-> c.after]

\* The goroutine's record once its call has entered node t with `path`.
Enter(r, t, path) ==
    LET e == IF flavor = "slice" THEN sliceEnter(r.op, path)
             ELSE stringEnter(r.op, path, heap[t].delimiter)
    IN  IF e.pc = "panic"
        THEN [r EXCEPT !.pc = "done", !.t = t, !.panic = TRUE]
        ELSE [r EXCEPT !.pc = e.pc, !.t = t, !.head = e.head, !.rest = e.rest]

\* Some other goroutine is at the unsynchronized store to node t's value.
StorePoised(th, t) ==
    \E o \in Threads \ {th} : thr[o].pc = "store" /\ thr[o].t = t

\* New..() then one call per goroutine, in any interleaving. The trie the
\* calls start from is new or holds one key.
InitC ==
    /\ flavor \in {"slice", "string"}
    /\ \E d \in Delimiters :
           \/ heap = IF flavor = "slice" THEN <<newSliceTrie>>
                                         ELSE <<newStringTrie(d)>>
           \/ \E k \in SlicePaths :
                  /\ flavor = "slice" /\ Len(k) = MaxPathLen
                  /\ heap = slicePut(<<newSliceTrie>>, Root, k, "v1")
           \/ \E k \in Strings :
                  /\ flavor = "string" /\ Len(k) = MaxStrLen
                  /\ heap = stringPut(<<newStringTrie(d)>>, Root, k, "v1")
    /\ last = Call("New", <<>>, Zero, NotFound, FALSE)
    /\ before = heap
    /\ prev = NoCall
    /\ thr = [th \in Threads |-> Idle]

Step(th, r, h) ==
    /\ thr' = [thr EXCEPT ![th] = r]
    /\ heap' = h
    /\ UNCHANGED <<flavor, last, before, prev>>

\* go trie.Put(key, value) / Get(key) / Delete(key)
CallPut(th, key, value) ==
    /\ thr[th].pc = "idle"
    /\ Step(th, Enter([Idle EXCEPT !.op = "Put", !.key = key, !.value = value],
                      Root, key), heap)

CallGet(th, key) ==
    /\ thr[th].pc = "idle"
    /\ Step(th, Enter([Idle EXCEPT !.op = "Get", !.key = key], Root, key), heap)

CallDelete(th, key) ==
    /\ thr[th].pc = "idle"
    /\ Step(th, Enter([Idle EXCEPT !.op = "Delete", !.key = key], Root, key),
            heap)

\* t.lock.Lock() returns once no goroutine holds the lock.
CanLockAlways(h, t) == TRUE
CanLock(h, t) == h[t].lock = NewRWMutex

\* t.lock.RLock() returns once no writer holds the lock.
CanRLockAlways(h, t) == TRUE
CanRLock(h, t) == h[t].lock.writer = 0

\* t.lock.Lock()
Lock(th) ==
    LET r == thr[th]
    IN  /\ r.pc = "lock"
        /\ CanLock(heap, r.t)
        /\ Step(th, [r EXCEPT !.pc = IF r.op = "Put" THEN "lookup" ELSE "delete"],
                [heap EXCEPT ![r.t].lock.writer = th])

\* child, ok := t.children[key], under the lock (Put) or the read lock (Get,
\* Delete).
Lookup(th) ==
    LET r == thr[th]
        l == LookupChild(heap, r.t, r.head)
    IN  /\ r.pc = "lookup"
        /\ Step(th, [r EXCEPT !.pc = IF r.op # "Put" THEN "runlock"
                                     ELSE IF l.ok THEN "unlock" ELSE "insert",
                              !.child = l.child, !.ok = l.ok], heap)

\* Put, the child is missing: child = new..Trie(); t.children[key] = child
Insert(th) ==
    LET r == thr[th]
    IN  /\ r.pc = "insert"
        /\ Len(heap) < MaxHeap
        /\ Step(th, [r EXCEPT !.pc = "unlock", !.child = Len(heap) + 1],
                InsertChild(heap, r.t, r.head,
                            IF flavor = "slice" THEN newSliceTrie
                            ELSE newStringTrie(heap[r.t].delimiter)))

\* Delete under the lock: delete(t.children, key)
Remove(th) ==
    LET r == thr[th]
    IN  /\ r.pc = "delete"
        /\ Step(th, [r EXCEPT !.pc = "unlock"], DeleteChild(heap, r.t, r.head))

\* t.lock.Unlock(), then Put recurses into the child and Delete returns.
UnlockKeepsLock(th) ==
    LET r == thr[th]
    IN  /\ r.pc = "unlock"
        /\ IF r.op = "Put"
           THEN Step(th, Enter(r, r.child, r.rest), heap)
           ELSE Step(th, [r EXCEPT !.pc = "done"], heap)
Unlock(th) ==
    LET r == thr[th]
        h == [heap EXCEPT ![r.t].lock.writer = 0]
    IN  /\ r.pc = "unlock"
        /\ IF r.op = "Put"
           THEN Step(th, Enter(r, r.child, r.rest), h)
           ELSE Step(th, [r EXCEPT !.pc = "done"], h)

\* t.lock.RLock()
RLock(th) ==
    LET r == thr[th]
    IN  /\ r.pc = "rlock"
        /\ CanRLock(heap, r.t)
        /\ Step(th, [r EXCEPT !.pc = "lookup"],
                [heap EXCEPT ![r.t].lock.readers = @ \cup {th}])

\* t.lock.RUnlock(), then the call returns when the child is missing and
\* recurses into it otherwise.
RUnlock(th) ==
    LET r == thr[th]
        h == [heap EXCEPT ![r.t].lock.readers = @ \ {th}]
    IN  /\ r.pc = "runlock"
        /\ IF r.ok
           THEN Step(th, Enter(r, r.child, r.rest), h)
           ELSE Step(th, [r EXCEPT !.pc = "done", !.ret = NotFound], h)

\* t.value = value; return
Store(th) ==
    LET r == thr[th]
    IN  /\ r.pc = "store"
        /\ Step(th, [r EXCEPT !.pc = "done"], StoreValue(heap, r.t, r.value))

\* return t.value, true. No lock orders the read with a store another
\* goroutine is at: the read may overlap it and see a torn value.
Load(th) ==
    LET r == thr[th]
    IN  /\ r.pc = "load"
        /\ \/ Step(th, [r EXCEPT !.pc = "done", !.ret = LoadValue(heap, r.t)],
                   heap)
           \/ /\ StorePoised(th, r.t)
              /\ Step(th, [r EXCEPT !.pc = "done",
                                    !.ret = [value |-> Torn, found |-> TRUE]],
                      heap)

\* Two goroutines at t.value = value of the same node: no lock orders the
\* two stores, which may overlap and leave a torn value.
RacingStores(a, b) ==
    /\ a # b
    /\ thr[a].pc = "store" /\ thr[b].pc = "store" /\ thr[a].t = thr[b].t
    /\ thr' = [thr EXCEPT ![a].pc = "done", ![b].pc = "done"]
    /\ heap' = StoreValue(heap, thr[a].t, Torn)
    /\ UNCHANGED <<flavor, last, before, prev>>

NextC ==
    \/ \E th \in Threads, key \in Keys, value \in Values : CallPut(th, key, value)
    \/ \E th \in Threads, key \in Keys : CallGet(th, key)
    \/ \E th \in Threads, key \in Keys : CallDelete(th, key)
    \/ \E th \in Threads : Lock(th)
    \/ \E th \in Threads : RLock(th)
    \/ \E th \in Threads : Lookup(th)
    \/ \E th \in Threads : Insert(th)
    \/ \E th \in Threads : Remove(th)
    \/ \E th \in Threads : Unlock(th)
    \/ \E th \in Threads : RUnlock(th)
    \/ \E th \in Threads : Store(th)
    \/ \E th \in Threads : Load(th)
    \/ \E a \in Threads, b \in Threads : RacingStores(a, b)

SpecC == InitC /\ [][NextC]_vars

\* New(delimiter) with any delimiter, then one call per goroutine.
InitD ==
    \/ InitC
    \/ /\ flavor = "string"
       /\ \E d \in AnyDelimiter : heap = <<newStringTrie(d)>>
       /\ last = Call("New", <<>>, Zero, NotFound, FALSE)
       /\ before = heap
       /\ prev = NoCall
       /\ thr = [th \in Threads |-> Idle]

SpecD == InitD /\ [][NextC]_vars

\* One statement of goroutine th's running call.
Run(th) ==
    \/ Lock(th) \/ RLock(th) \/ Lookup(th) \/ Insert(th) \/ Remove(th)
    \/ Unlock(th) \/ RUnlock(th) \/ Store(th) \/ Load(th)
    \/ \E o \in Threads : RacingStores(th, o)

\* The Go scheduler runs every goroutine that can run, and a sync.RWMutex
\* that is free is granted to a goroutine waiting for it.
SpecFair == SpecC /\ \A th \in Threads : WF_vars(Run(th))

\* ------------------------------------------------- vocabulary of the claims

GetOf(h, key) ==
    IF flavor = "slice" THEN sliceGet(h, Root, key) ELSE stringGet(h, Root, key)

\* The segments the descent of Put and Get consumes from a string key, in
\* order: the key is cut at the first delimiter until nothing is left.
RECURSIVE Segments(_, _)
Segments(s, d) ==
    IF s = <<>> THEN <<>>
    ELSE <<Cut(s, d).before>> \o Segments(Cut(s, d).after, d)

TokensOf(key) ==
    IF flavor = "slice" THEN key ELSE Segments(key, heap[Root].delimiter)

IsPrefix(p, q) == Len(p) <= Len(q) /\ SubSeq(q, 1, Len(p)) = p

\* The node reached from t by following toks child by child, 0 when a token
\* has no child.
RECURSIVE NodeAt(_, _, _)
NodeAt(h, t, toks) ==
    IF toks = <<>> THEN t
    ELSE IF toks[1] \in DOMAIN h[t].children
         THEN NodeAt(h, h[t].children[toks[1]], Tail(toks))
         ELSE 0

Fresh == IF flavor = "slice" THEN <<newSliceTrie>>
                             ELSE <<newStringTrie(heap[Root].delimiter)>>

\* ------------------------------------------------------------------ claims

\* C1: Round-trip. In both flavors, from any trie reached by Put and Delete
\* calls, Put(k, v) immediately followed by Get(k) returns (v, true).
C1_RoundTrip ==
    (last.op = "Get" /\ prev.op = "Put" /\ prev.key = last.key)
        => last.ret = [value |-> prev.value, found |-> TRUE]

C1_Witness ==
    /\ flavor = "string"
    /\ last.op = "Get" /\ prev.op = "Put" /\ prev.key = last.key
    /\ Len(TokensOf(last.key)) = 2
    /\ prev.value = "v1"
    /\ heap[NodeAt(heap, Root, TokensOf(last.key))].value = "v1"

\* C2 as stated: for every key (the empty string included in the string
\* flavor, every non-empty path in the token-sequence flavor), after
\* Put(k, v); Delete(k) a Get(k) reports found = false.
C2_DeleteRemovesEveryKey ==
    (/\ prev.op = "Put" /\ last.op = "Delete" /\ prev.key = last.key
     /\ (flavor = "slice" => last.key # <<>>))
        => ~GetOf(heap, last.key).found

\* C2 amended: the same for every non-empty key of either flavor.
C2_DeleteRemoves ==
    (/\ prev.op = "Put" /\ last.op = "Delete" /\ prev.key = last.key
     /\ last.key # <<>>)
        => ~GetOf(heap, last.key).found

C2_Witness ==
    /\ flavor = "string"
    /\ prev.op = "Put" /\ last.op = "Delete" /\ prev.key = last.key
    /\ Len(TokensOf(last.key)) = 2
    /\ GetOf(before, last.key) = [value |-> "v1", found |-> TRUE]
    /\ ~GetOf(heap, last.key).found

\* k is p or extends p by one or more further tokens.
Extends(k, p) == IsPrefix(TokensOf(p), TokensOf(k))

\* C3 as stated: after Delete(p) returns, Get reports found = false for p and
\* for every key that extends p by further tokens.
C3_SubtreeGoneEveryKey ==
    (last.op = "Delete" /\ ~last.panic)
        => \A k \in Keys : Extends(k, last.key) => ~GetOf(heap, k).found

\* C3 amended: the same for every non-empty p.
C3_SubtreeGone ==
    (last.op = "Delete" /\ ~last.panic /\ last.key # <<>>)
        => \A k \in Keys : Extends(k, last.key) => ~GetOf(heap, k).found

C3_Witness ==
    /\ flavor = "slice"
    /\ last.op = "Delete" /\ Len(last.key) = 1
    /\ \E k \in Keys :
           /\ Extends(k, last.key) /\ Len(k) = 2
           /\ GetOf(before, k) = [value |-> "v1", found |-> TRUE]
           /\ ~GetOf(heap, k).found

\* C4: Get reports structural existence. Get(k) is found exactly when every
\* token of k has a child along the descent from the root, whatever was
\* assigned; a found Get returns the node's value slot and a failed one the
\* zero value; after Put(k, v) on a new trie every proper prefix of k is
\* found with the zero value.
C4_GetIsStructural ==
    /\ \A k \in Keys :
           LET n == NodeAt(heap, Root, TokensOf(k))
           IN  GetOf(heap, k) = IF n = 0 THEN [value |-> Zero, found |-> FALSE]
                                ELSE [value |-> heap[n].value, found |-> TRUE]
    /\ (last.op = "Put" /\ before = Fresh)
           => \A p \in Keys :
                  (/\ IsPrefix(TokensOf(p), TokensOf(last.key))
                   /\ TokensOf(p) # TokensOf(last.key))
                      => GetOf(heap, p) = [value |-> Zero, found |-> TRUE]

C4_Witness ==
    /\ flavor = "slice"
    /\ last.op = "Put" /\ before = Fresh /\ last.value = "v1"
    /\ Len(last.key) = 2
    /\ GetOf(heap, <<last.key[1]>>) = [value |-> Zero, found |-> TRUE]
    /\ \E k \in Keys : ~GetOf(heap, k).found

\* s does not end with the delimiter d.
NoTrailing(s, d) ==
    ~(Len(s) >= Len(d) /\ SubSeq(s, Len(s) - Len(d) + 1, Len(s)) = d)

\* The two Puts of C5 were the last two calls: Put(s + delimiter, v1) and
\* then Put(s, v2), with v1 # v2 and s without a trailing delimiter.
C5_Case ==
    /\ flavor = "string"
    /\ prev.op = "Put" /\ last.op = "Put"
    /\ prev.key = last.key \o heap[Root].delimiter
    /\ NoTrailing(last.key, heap[Root].delimiter)
    /\ prev.value # last.value

\* C5 as stated: after Put(s + delimiter, v1); Put(s, v2) both keys are
\* retrievable with their own value.
C5_TrailingDelimiterDistinct ==
    C5_Case => /\ GetOf(heap, prev.key) = [value |-> prev.value, found |-> TRUE]
               /\ GetOf(heap, last.key) = [value |-> last.value, found |-> TRUE]

\* C5 amended: the two keys are distinct only for the empty s (the root and
\* its child keyed by the empty segment); for a non-empty s both keys address
\* the node of s, so both Gets return (v2, true).
C5_TrailingDelimiterSameNode ==
    C5_Case =>
        /\ GetOf(heap, last.key) = [value |-> last.value, found |-> TRUE]
        /\ GetOf(heap, prev.key) =
               [value |-> IF last.key = <<>> THEN prev.value ELSE last.value,
                found |-> TRUE]
        /\ last.key # <<>> => TokensOf(prev.key) = TokensOf(last.key)

C5_Witness ==
    /\ C5_Case
    /\ last.key # <<>>
    /\ GetOf(before, prev.key) = [value |-> prev.value, found |-> TRUE]
    /\ GetOf(heap, prev.key) = [value |-> last.value, found |-> TRUE]

\* C6: Delete of an absent key is a no-op. When some token of k has no child
\* along the path, Delete(k) returns and leaves the trie as it was; Delete(k)
\* twice leaves the trie of a single Delete(k).
C6_DeleteAbsentNoOp ==
    /\ (/\ last.op = "Delete"
        /\ NodeAt(before, Root, TokensOf(last.key)) = 0)
           => (~last.panic /\ heap = before)
    /\ (/\ last.op = "Delete" /\ prev.op = "Delete" /\ prev.key = last.key)
           => heap = before

C6_Witness ==
    /\ flavor = "string"
    /\ last.op = "Delete" /\ prev.op = "Delete" /\ prev.key = last.key
    /\ Len(TokensOf(last.key)) = 2
    /\ NodeAt(before, Root, TokensOf(last.key)) = 0
    /\ NodeAt(before, Root, SubSeq(TokensOf(last.key), 1, 1)) # 0
    /\ DOMAIN before[Root].children # {}
    /\ heap = before

\* C7: Delete's frame. Delete(k) removes only the node of k and its
\* descendants: every key that is neither k nor an extension of k gives the
\* same Get result as before, the ancestors of k included, also when the
\* deletion leaves them childless.
C7_DeleteFrame ==
    last.op = "Delete"
        => \A k \in Keys :
               ~IsPrefix(TokensOf(last.key), TokensOf(k))
                   => GetOf(heap, k) = GetOf(before, k)

C7_Witness ==
    /\ flavor = "slice"
    /\ last.op = "Delete" /\ Len(last.key) = 2
    /\ GetOf(before, last.key).found
    /\ ~GetOf(heap, last.key).found
    /\ GetOf(heap, <<last.key[1]>>) = [value |-> "v1", found |-> TRUE]
    /\ DOMAIN heap[NodeAt(heap, Root, <<last.key[1]>>)].children = {}

\* C8: in the token-sequence flavor Delete with an empty path panics in
\* every trie state, and the heap is as before the call.
C8_DeleteSelfPanics ==
    (flavor = "slice" /\ last.op = "Delete" /\ last.key = <<>>)
        => (last.panic /\ heap = before)

C8_Witness ==
    /\ flavor = "slice" /\ last.op = "Delete" /\ last.key = <<>>
    /\ last.panic
    /\ DOMAIN heap[Root].children # {}
    /\ heap[Root].value = "v1"

\* Two goroutines are at unsynchronized accesses of the same node's value
\* slot, one of them a store.
ValueRace(a, b) ==
    /\ a # b
    /\ thr[a].pc = "store" /\ thr[b].pc \in {"store", "load"}
    /\ thr[a].t = thr[b].t

\* C9: no two concurrent calls access the same node's value slot at the same
\* time, one of them writing, without a lock ordering the two accesses.
C9_NoValueRace == \A a \in Threads, b \in Threads : ~ValueRace(a, b)

\* Every goroutine has made its call and the call has returned.
AllDone == \A th \in Threads : thr[th].pc = "done"

AllPuts == \A th \in Threads : thr[th].op = "Put"

Retrievable ==
    \A th \in Threads :
        GetOf(heap, thr[th].key) = [value |-> thr[th].value, found |-> TRUE]

\* C10 as stated: Put calls with pairwise distinct keys, run concurrently
\* with no Delete, all returned: every key is retrievable with its value.
C10_DistinctKeysAllRetrievable ==
    (/\ AllDone /\ AllPuts
     /\ \A a \in Threads, b \in Threads : a # b => thr[a].key # thr[b].key)
        => Retrievable

\* C10 amended: the same for keys that address pairwise distinct nodes, that
\* is keys whose token sequences are pairwise distinct.
C10_DistinctNodesAllRetrievable ==
    (/\ AllDone /\ AllPuts
     /\ \A a \in Threads, b \in Threads :
            a # b => TokensOf(thr[a].key) # TokensOf(thr[b].key))
        => Retrievable

\* Two Puts that had to create the same missing first child and both stored
\* below it.
C10_Witness ==
    /\ flavor = "slice"
    /\ AllDone /\ AllPuts
    /\ thr[1].key # thr[2].key
    /\ Len(thr[1].key) = 2 /\ Len(thr[2].key) = 2
    /\ thr[1].key[1] = thr[2].key[1]
    /\ NodeAt(before, Root, <<thr[1].key[1]>>) = 0
    /\ thr[1].value = "v1" /\ thr[2].value = "v1"
    /\ Retrievable

\* Goroutine th's call has started and has not returned.
Running(th) == thr[th].pc \notin {"idle", "done"}

\* Goroutine th is at Lock or RLock of a node whose lock it cannot get now.
Waiting(th) ==
    \/ thr[th].pc = "lock" /\ ~CanLock(heap, thr[th].t)
    \/ thr[th].pc = "rlock" /\ ~CanRLock(heap, thr[th].t)

\* The goroutines holding node t's lock, exclusively or shared.
Holders(t) ==
    {o \in Threads : heap[t].lock.writer = o \/ o \in heap[t].lock.readers}

\* No state is a deadlock: whoever waits for a node's lock waits for other
\* goroutines whose calls are running and are not themselves waiting.
NoDeadlock ==
    \A th \in Threads :
        Waiting(th) =>
            /\ Holders(thr[th].t) # {}
            /\ \A o \in Holders(thr[th].t) :
                   o # th /\ Running(o) /\ ~Waiting(o)

Descends(th) ==
    /\ thr[th].pc \in {"unlock", "runlock"}
    /\ thr'[th].t # thr[th].t

\* C12 as stated: every Put, Get and Delete call ends after finitely many
\* descent steps, for every key and every delimiter New accepts, the empty
\* one included: each descent either ends the call at the child (its value is
\* stored or loaded, or the call returns) or leaves the child a remaining
\* path strictly shorter than the node's, so a call for a key of n characters
\* or tokens descends at most n + 1 times.
C12_EveryDescentConsumes ==
    [][\A th \in Threads :
           Descends(th) =>
               \/ thr'[th].pc \in {"store", "load", "done"}
               \/ Len(thr'[th].rest) < Len(thr[th].rest)]_vars

\* strings.Split(s, d): s split at every occurrence of d; a trailing
\* delimiter, and the empty string, give a final empty segment.
RECURSIVE Split(_, _)
Split(s, d) ==
    IF ~Cut(s, d).found THEN <<s>>
    ELSE <<Cut(s, d).before>> \o Split(Cut(s, d).after, d)

\* The token-sequence trie with the nodes of the delimited-string trie h:
\* the same node ids, locks, children maps and values, the tokens being the
\* segments.
RECURSIVE ToSliceUpTo(_, _)
ToSliceUpTo(h, n) ==
    IF n = 0 THEN <<>>
    ELSE Append(ToSliceUpTo(h, n - 1),
                [lock |-> h[n].lock, children |-> h[n].children,
                 value |-> h[n].value])

ToSlice(h) == ToSliceUpTo(h, Len(h))

\* The last call, made on the delimited-string trie, did what the same call
\* with the key toks(op, key) does on the token-sequence trie holding the
\* same tree, and afterwards every key's Get agrees on the two tries.
SameAsSlice(toks(_, _)) ==
    (flavor = "string" /\ last.op # "New") =>
        LET b == ToSlice(before)
            k == toks(last.op, last.key)
        IN  /\ last.op = "Put" =>
                   ToSlice(heap) = slicePut(b, Root, k, last.value)
            /\ last.op = "Get" =>
                   last.ret = sliceGet(b, Root, k) /\ heap = before
            /\ last.op = "Delete" =>
                   sliceDelete(b, Root, k) =
                       [heap |-> ToSlice(heap), panic |-> last.panic]
            /\ \A s \in Keys :
                   GetOf(heap, s) = sliceGet(ToSlice(heap), Root, toks("Get", s))

SplitKey(op, s) == Split(s, heap[Root].delimiter)

\* The segments the descent of the call consumes: those of Put and Get, and
\* for Delete of the empty string the one empty segment.
ConsumedKey(op, s) ==
    IF op = "Delete" /\ s = <<>> THEN << <<>> >>
    ELSE Segments(s, heap[Root].delimiter)

\* C13 as stated: every call on the delimited-string trie gives the Get
\* results and the tree of the same call on a token-sequence trie with the
\* key replaced by its split at every delimiter, a trailing delimiter giving
\* a final empty segment.
C13_SplitEquivalent == SameAsSlice(SplitKey)

\* C13 amended: the same with the key replaced by the segments the descent
\* consumes, where a trailing delimiter gives no final empty segment.
C13_SegmentsEquivalent == SameAsSlice(ConsumedKey)

C13_Witness ==
    /\ flavor = "string"
    /\ last.op = "Delete" /\ last.key = <<"a", "/">>
    /\ GetOf(before, <<"a">>) = [value |-> "v1", found |-> TRUE]
    /\ ~GetOf(heap, <<"a">>).found
    /\ DOMAIN heap[Root].children # {}

\* The heap a sequential Put or Delete of key leaves from heap h.
PutOf(h, key, value) ==
    IF flavor = "slice" THEN slicePut(h, Root, key, value)
    ELSE stringPut(h, Root, key, value)

DeleteOf(h, key) ==
    IF flavor = "slice" THEN sliceDelete(h, Root, key).heap
    ELSE stringDelete(h, Root, key).heap

\* Goroutine g made a Get that has returned, goroutine p a Put of a value
\* other than the zero value, on a trie that did not hold the node of the
\* Put's key when the calls started.
GetBesidePut(g, p) ==
    /\ thr[g].op = "Get" /\ thr[g].pc = "done"
    /\ thr[p].op = "Put" /\ thr[p].value # Zero
    /\ NodeAt(before, Root, TokensOf(thr[p].key)) = 0

\* C14 as stated: a Get running beside a single Put(k, v) never observes the
\* Put half done: Get(k) returns found = false or (v, true), and Get of a
\* proper prefix of k returns what it returns on the trie before the Put or
\* on the trie after it.
C14_GetSeesWholePut ==
    \A g \in Threads, p \in Threads :
        GetBesidePut(g, p) =>
            /\ thr[g].key = thr[p].key =>
                   thr[g].ret \in {NotFound,
                                   [value |-> thr[p].value, found |-> TRUE]}
            /\ (/\ IsPrefix(TokensOf(thr[g].key), TokensOf(thr[p].key))
                /\ TokensOf(thr[g].key) # TokensOf(thr[p].key))
                   => thr[g].ret \in
                          {GetOf(before, thr[g].key),
                           GetOf(PutOf(before, thr[p].key, thr[p].value),
                                 thr[g].key)}

\* The two goroutines ran two mutators of one key, a Put beside a Put or a
\* Delete, and both calls have returned.
SameKeyMutators ==
    /\ AllDone
    /\ thr[1].key = thr[2].key
    /\ {thr[1].op, thr[2].op} \in {{"Put"}, {"Put", "Delete"}}

\* The heap goroutine th's call leaves when it runs alone from heap h.
AloneOf(h, th) ==
    IF thr[th].op = "Put" THEN PutOf(h, thr[th].key, thr[th].value)
    ELSE DeleteOf(h, thr[th].key)

\* Every key's Get gives the same result on the two heaps.
SameGets(h1, h2) == \A k \in Keys : GetOf(h1, k) = GetOf(h2, k)

\* C15 as stated: two mutators of one key run concurrently, Put(k, v) beside
\* Delete(k) or Put(k, v1) beside Put(k, v2); once both have returned the
\* trie is the trie of one of the two sequential orders of the calls, for
\* every key's Get.
C15_EitherOrder ==
    SameKeyMutators =>
        \/ SameGets(heap, AloneOf(AloneOf(before, 1), 2))
        \/ SameGets(heap, AloneOf(AloneOf(before, 2), 1))

\* The nodes whose lock goroutine th holds, exclusively or shared.
Held(th) ==
    {t \in DOMAIN heap : heap[t].lock.writer = th \/ th \in heap[t].lock.readers}

\* The statements between a lock's acquisition and its release: the one
\* read, insert or delete of the children map, and the release.
InCriticalSection(th) ==
    thr[th].pc \in {"lookup", "insert", "delete", "unlock", "runlock"}

\* The tokens of goroutine th's key consumed on the way to the node it is
\* in, at Lock or RLock: all but the head token and the remaining path.
ConsumedBy(th) ==
    LET all == IF flavor = "slice" THEN thr[th].key
               ELSE ConsumedKey(thr[th].op, thr[th].key)
        left == IF flavor = "slice" THEN thr[th].rest
                ELSE Segments(thr[th].rest, heap[Root].delimiter)
    IN  SubSeq(all, 1, Len(all) - 1 - Len(left))

\* Another goroutine's Delete has removed a node on the path toks.
Severed(th, toks) ==
    \E o \in Threads \ {th} :
        /\ thr[o].op = "Delete" /\ thr[o].pc \in {"unlock", "done"}
        /\ IsPrefix(IF flavor = "slice" THEN thr[o].key
                    ELSE ConsumedKey("Delete", thr[o].key), toks)

\* C16: Locking discipline. At every point of every Put, Get and Delete call
\* the goroutine holds the lock of at most one node, the node it is in, and
\* only around the single read, insert or delete of that node's children
\* map; it holds no lock when it recurses into a child (where it is at the
\* child's first statement) or reads or writes a value slot; and the lock it
\* waits for is that of the node its key's consumed tokens lead to, unless a
\* concurrent Delete has severed that node.
C16_LockingDiscipline ==
    \A th \in Threads :
        /\ Cardinality(Held(th)) <= 1
        /\ InCriticalSection(th) <=> Held(th) = {thr[th].t}
        /\ ~InCriticalSection(th) => Held(th) = {}
        /\ thr[th].pc \in {"lock", "rlock"} =>
               \/ NodeAt(heap, Root, ConsumedBy(th)) = thr[th].t
               \/ Severed(th, ConsumedBy(th))

\* Two Puts are each inside the critical section of a different node.
C16_Witness ==
    /\ thr[1].op = "Put" /\ thr[1].pc = "insert" /\ thr[1].t # Root
    /\ thr[2].op = "Put" /\ thr[2].pc = "insert" /\ thr[2].t = Root
    /\ Held(1) = {thr[1].t} /\ Held(2) = {Root}

\* Goroutine th is at a read of the children map of the node it is in.
ReadsMap(th) == thr[th].pc = "lookup"

\* Goroutine th is at an insert into or a delete from that map.
WritesMap(th) == thr[th].pc \in {"insert", "delete"}

\* C17: Children-map mutual exclusion. In every interleaving every read of a
\* node's children map is done holding that node's lock, shared or
\* exclusive, and every insert and delete holding it exclusively, so no call
\* reads or writes a map while another call is writing the same map.
C17_MapMutualExclusion ==
    /\ \A th \in Threads :
           LET l == heap[thr[th].t].lock
           IN  /\ ReadsMap(th) => (l.writer = th \/ th \in l.readers)
               /\ WritesMap(th) => (l.writer = th /\ l.readers = {})
    /\ \A t \in DOMAIN heap :
           heap[t].lock.writer # 0 => heap[t].lock.readers = {}
    /\ \A a \in Threads, b \in Threads :
           ~(/\ a # b
             /\ thr[a].t = thr[b].t
             /\ WritesMap(a)
             /\ (ReadsMap(b) \/ WritesMap(b)))

\* Two Gets read the root's map under the shared lock at the same time, and
\* the map is not empty.
C17_Witness ==
    /\ ReadsMap(1) /\ ReadsMap(2)
    /\ thr[1].op = "Get" /\ thr[2].op = "Get"
    /\ thr[1].t = Root /\ thr[2].t = Root
    /\ heap[Root].lock = [writer |-> 0, readers |-> {1, 2}]
    /\ DOMAIN heap[Root].children # {}

\* The string key begins with the delimiter.
BeginsWithDelimiter(k) == IsPrefix(heap[Root].delimiter, k)

\* The last call was Delete("") on a delimited-string trie.
DeleteEmptyString == flavor = "string" /\ last.op = "Delete" /\ last.key = <<>>

\* C18: in the delimited-string flavor Delete("") fails in no trie state. It
\* removes exactly the root's child keyed by the empty segment, with its
\* subtree: every key beginning with the delimiter is not found afterwards,
\* the root's value, its other children and every other key's Get are as
\* before; without such a child the trie is left as it was.
C18_DeleteEmptyString ==
    DeleteEmptyString =>
        /\ ~last.panic
        /\ DOMAIN heap[Root].children = DOMAIN before[Root].children \ {<<>>}
        /\ \A key \in DOMAIN heap[Root].children :
               heap[Root].children[key] = before[Root].children[key]
        /\ heap[Root].value = before[Root].value
        /\ Len(heap) = Len(before)
        /\ \A t \in DOMAIN heap \ {Root} : heap[t] = before[t]
        /\ \A k \in Keys :
               IF BeginsWithDelimiter(k) THEN ~GetOf(heap, k).found
               ELSE GetOf(heap, k) = GetOf(before, k)
        /\ <<>> \notin DOMAIN before[Root].children => heap = before

\* The root had the child keyed by the empty segment, holding a value, and
\* another child, which stays.
C18_Witness ==
    /\ DeleteEmptyString
    /\ GetOf(before, <<"/">>) = [value |-> "v1", found |-> TRUE]
    /\ ~GetOf(heap, <<"/">>).found
    /\ GetOf(heap, <<"a">>) = [value |-> "v1", found |-> TRUE]
    /\ heap[Root].value = "v1"

\* The children-map entries of heap h that refer to node t.
Refs(h, t) ==
    {e \in UNION {{<<p, key>> : key \in DOMAIN h[p].children} : p \in DOMAIN h} :
        h[e[1]].children[e[2]] = t}

\* The nodes of h reachable from the nodes S through children maps.
RECURSIVE Reach(_, _)
Reach(h, S) ==
    LET N == S \cup UNION {{h[p].children[key] : key \in DOMAIN h[p].children} :
                              p \in S}
    IN  IF N = S THEN S ELSE Reach(h, N)

\* The number of parents above node t, which has one parent unless it is
\* the root.
RECURSIVE Depth(_, _)
Depth(h, t) ==
    IF t = Root THEN 0
    ELSE 1 + Depth(h, (CHOOSE e \in Refs(h, t) : TRUE)[1])

\* The token sequences of the keys.
KeyPaths == {TokensOf(k) : k \in Keys}

\* The nodes reachable from the root form a tree: no entry refers to the
\* root, every other reachable node is referred to by one entry of one
\* parent, itself reachable, every reachable node is reached by consuming
\* the tokens of a key, and as many tokens as the node is deep.
TreeShape ==
    /\ Refs(heap, Root) = {}
    /\ \A t \in Reach(heap, {Root}) \ {Root} :
           /\ Cardinality(Refs(heap, t)) = 1
           /\ \A e \in Refs(heap, t) : e[1] \in Reach(heap, {Root}) /\ e[1] # t
    /\ Reach(heap, {Root}) = {NodeAt(heap, Root, toks) : toks \in KeyPaths} \ {0}
    /\ \A toks \in KeyPaths :
           NodeAt(heap, Root, toks) # 0
               => Depth(heap, NodeAt(heap, Root, toks)) = Len(toks)

\* Node t of the heap is in no children map: a Delete has severed it.
SeveredNode(h, t) == t \in DOMAIN h /\ t # Root /\ Refs(h, t) = {}

\* C19: Tree-shape invariant. In every state reached by concurrent or
\* one-after-the-other Put, Get and Delete calls the nodes reachable from
\* the root form a rooted tree, with no cycle and no shared child, a node's
\* depth being the number of tokens consumed to reach it; and a node once
\* severed by Delete is never put into a children map again.
C19_TreeShape ==
    /\ []TreeShape
    /\ [][\A t \in DOMAIN heap :
              SeveredNode(heap, t) => SeveredNode(heap', t)]_vars

\* A Delete severed the node of a key and a Put made a new node for the
\* same key, leaving the severed one outside the tree.
C19_Witness ==
    /\ AllDone
    /\ {thr[1].op, thr[2].op} = {"Put", "Delete"}
    /\ \E t \in DOMAIN before :
           /\ SeveredNode(heap, t)
           /\ \E toks \in KeyPaths :
                  /\ NodeAt(before, Root, toks) = t
                  /\ NodeAt(heap, Root, toks) \notin {0, t}
                  /\ Len(toks) = 2

\* The nodes on the path of the tokens toks in heap h, the root included.
PathNodes(h, toks) ==
    {NodeAt(h, Root, SubSeq(toks, 1, n)) : n \in 0..Len(toks)} \ {0}

\* What the last call, a Put, did to the heap apart from the keys' Get
\* results: no node and no map entry is removed, no lock is touched, the
\* nodes it made are the ones missing on its key's path, each entered in its
\* parent under the key's token, the node of the key holds the value, every
\* other old node its old value and every other new node the zero value.
PutFrameOfHeap ==
    LET toks == TokensOf(last.key)
        at == NodeAt(heap, Root, toks)
        old == DOMAIN before
        new == DOMAIN heap \ DOMAIN before
    IN  /\ Len(heap) >= Len(before)
        /\ at # 0 /\ heap[at].value = last.value
        /\ \A t \in old :
               /\ heap[t].lock = before[t].lock
               /\ \A key \in DOMAIN before[t].children :
                      /\ key \in DOMAIN heap[t].children
                      /\ heap[t].children[key] = before[t].children[key]
               /\ \A key \in DOMAIN heap[t].children \ DOMAIN before[t].children :
                      /\ heap[t].children[key] \in new
                      /\ t \in PathNodes(heap, toks)
               /\ t # at => heap[t].value = before[t].value
        /\ new \subseteq PathNodes(heap, toks)
        /\ Cardinality(new) = Len(toks) + 1 - Cardinality(PathNodes(before, toks))
        /\ \A t \in new :
               /\ heap[t].lock = NewRWMutex
               /\ \A key \in DOMAIN heap[t].children :
                      heap[t].children[key] \in new
               /\ Cardinality(DOMAIN heap[t].children) <= 1
               /\ t # at => heap[t].value = Zero

\* C20 as stated: a sequential Put(k, v) overwrites only the value slot of
\* the node at k and creates only the nodes missing along k's path; it
\* removes no node, every key other than k that was found before is found
\* with the same value, and new ancestors of k hold the zero value.
C20_PutFrameEveryKey ==
    last.op = "Put" =>
        /\ PutFrameOfHeap
        /\ \A k \in Keys :
               (k # last.key /\ GetOf(before, k).found)
                   => GetOf(heap, k) = GetOf(before, k)

\* C20 amended: the same for every key that addresses another node than k,
\* that is whose token sequence is not that of k.
C20_PutFrame ==
    last.op = "Put" =>
        /\ PutFrameOfHeap
        /\ \A k \in Keys :
               (TokensOf(k) # TokensOf(last.key) /\ GetOf(before, k).found)
                   => GetOf(heap, k) = GetOf(before, k)

\* A Put overwrites the value of a node that has a child holding a value.
C20_Witness ==
    /\ flavor = "slice"
    /\ last.op = "Put" /\ Len(last.key) = 1 /\ last.value = Zero
    /\ GetOf(before, last.key) = [value |-> "v1", found |-> TRUE]
    /\ GetOf(heap, last.key) = [value |-> Zero, found |-> TRUE]
    /\ \E k \in Keys :
           /\ Len(k) = 2 /\ k[1] = last.key[1]
           /\ GetOf(heap, k) = [value |-> "v1", found |-> TRUE]
    /\ heap[Root].value = "v1"

====
